---- MODULE Spec2Model ----
(***************************************************************************)
(* Model of trussrod/supplychain-dashboard, src/app.py: the CSV schema     *)
(* validator (validate_csv), the KPI calculator (calculate_kpis), the      *)
(* persistence sink (save_kpis) and the script's main processing block.    *)
(*                                                                         *)
(* A CSV file is a header (set of column names) and n rows of cells.  A    *)
(* cell is a record [k, v]: k = "date" (a YYYY-MM-DD string, v its day     *)
(* number), "num" (a plain number v), "null" (an empty cell) or "text" (a  *)
(* string that is neither a date nor a number).  Real-valued results are   *)
(* exact fractions [k = "num", n, d], or NaN, or Inf, as IEEE division     *)
(* of numpy scalars produces them.                                         *)
(***************************************************************************)
EXTENDS Integers, Sequences, FiniteSets, TLC

VARIABLES uploaded_file, df, validation_errors, kpis, pc, ui, metrics, db, calls

vars == <<uploaded_file, df, validation_errors, kpis, pc, ui, metrics, db, calls>>

(* ---------------------------- bounds ----------------------------------- *)
MaxRows == 2
MaxDay == 2
MaxNum == 2

(* ---------------------------- cells ------------------------------------ *)
DateCell(d) == [k |-> "date", v |-> d]
NumCell(x) == [k |-> "num", v |-> x]
NullCell == [k |-> "null", v |-> 0]
TextCell == [k |-> "text", v |-> 0]
Timestamp(d) == [k |-> "ts", v |-> d]
NaT == [k |-> "NaT", v |-> 0]

DateCells == {DateCell(d) : d \in 1..MaxDay} \cup {NullCell, TextCell}
NumCells == {NumCell(x) : x \in 0..MaxNum} \cup {NullCell, TextCell}

(* ---------------------------- numbers ---------------------------------- *)
Rat(n, d) == [k |-> "num", n |-> n, d |-> d]
NaN == [k |-> "nan", n |-> 0, d |-> 0]
Inf == [k |-> "inf", n |-> 1, d |-> 0]

(* ---------------------------- schema ----------------------------------- *)
RequiredColumns ==
    <<"Order_Date", "Delivery_Date", "Promised_Delivery_Date", "Sales", "Average_Inventory">>

RequiredSet == {RequiredColumns[i] : i \in 1..Len(RequiredColumns)}

required_columns ==
    [c \in RequiredSet |->
        IF c \in {"Order_Date", "Delivery_Date", "Promised_Delivery_Date"}
        THEN "datetime64[ns]" ELSE "numeric"]

(* ---------------------------- pd.read_csv ------------------------------ *)
\* dtype inference of one parsed column: a column with no rows, or holding any
\* string (a date string or other text), is object; numbers are int64, and
\* float64 as soon as one cell is empty.
InferDtype(s) ==
    IF Len(s) = 0 THEN "object"
    ELSE IF \E i \in 1..Len(s) : s[i].k \in {"date", "text"} THEN "object"
    ELSE IF \E i \in 1..Len(s) : s[i].k = "null" THEN "float64"
    ELSE "int64"

read_csv(file) ==
    [columns |-> file.columns,
     n |-> file.n,
     data |-> file.data,
     dtype |-> [c \in file.columns |-> InferDtype(file.data[c])]]

(* ---------------------------- pandas helpers --------------------------- *)
is_numeric_dtype(dtype) == dtype \in {"int64", "float64"}

\* pd.to_datetime raises on a string that is not a date
ToDatetimeRaises(s) == \E i \in 1..Len(s) : s[i].k = "text"

\* pd.to_datetime: dates (and epoch numbers) become timestamps, empty cells NaT
to_datetime(s) ==
    [i \in 1..Len(s) |->
        IF s[i].k \in {"date", "num", "ts"} THEN Timestamp(s[i].v) ELSE NaT]

\* Timestamp <= Timestamp; any comparison with NaT is False
LeDates(a, b) == a.k = "ts" /\ b.k = "ts" /\ a.v <= b.v

SetColumn(frame, col, values, dtype) ==
    [columns |-> frame.columns \cup {col},
     n |-> frame.n,
     data |-> [c \in frame.columns \cup {col} |->
                  IF c = col THEN values ELSE frame.data[c]],
     dtype |-> [c \in frame.columns \cup {col} |->
                  IF c = col THEN dtype ELSE frame.dtype[c]]]

RECURSIVE CountTrue(_, _)
CountTrue(flags, i) ==
    IF i > Len(flags) THEN 0
    ELSE (IF flags[i] THEN 1 ELSE 0) + CountTrue(flags, i + 1)

\* Series.mean() of a boolean column: NaN when there are no rows
MeanBool(flags) ==
    IF Len(flags) = 0 THEN NaN ELSE Rat(CountTrue(flags, 1), Len(flags))

RECURSIVE SumValid(_, _)
SumValid(s, i) ==
    IF i > Len(s) THEN 0
    ELSE (IF s[i].k = "num" THEN s[i].v ELSE 0) + SumValid(s, i + 1)

RECURSIVE CountValid(_, _)
CountValid(s, i) ==
    IF i > Len(s) THEN 0
    ELSE (IF s[i].k = "num" THEN 1 ELSE 0) + CountValid(s, i + 1)

HasText(s) == \E i \in 1..Len(s) : s[i].k = "text"

\* Series.sum(), skipna=True: empty cells are skipped, no cells give 0
SeriesSum(s) == SumValid(s, 1)

\* Series.mean(), skipna=True: sum and count of the non-empty cells
SeriesMean(s) ==
    IF CountValid(s, 1) = 0 THEN NaN ELSE Rat(SumValid(s, 1), CountValid(s, 1))

\* numpy scalar division total / mean: no exception, NaN and Inf propagate
Divide(total, mean) ==
    IF mean.k = "nan" THEN NaN
    ELSE IF mean.n = 0 THEN (IF total = 0 THEN NaN ELSE Inf)
    ELSE Rat(total * mean.d, mean.n)

(* ---------------------------- validate_csv ----------------------------- *)
MissingCols(frame) == SelectSeq(RequiredColumns, LAMBDA c : c \notin frame.columns)

\* mutant: one error per missing column instead of one aggregated error
MissingErrorsPerColumn(frame) ==
    [i \in 1..Len(MissingCols(frame)) |->
        [kind |-> "missing", cols |-> <<MissingCols(frame)[i]>>]]

\* lines 138-140: one aggregated error naming all the missing columns
MissingErrors(frame) ==
    IF MissingCols(frame) # <<>>
    THEN <<[kind |-> "missing", cols |-> MissingCols(frame)]>>
    ELSE <<>>

\* lines 143-150: the type check of one required column
ColumnErrors(frame, col) ==
    IF col \notin frame.columns THEN <<>>
    ELSE IF required_columns[col] = "datetime64[ns]"
         THEN IF ToDatetimeRaises(frame.data[col])
              THEN <<[kind |-> "dates", cols |-> <<col>>]>>
              ELSE <<>>
         ELSE IF required_columns[col] = "numeric" /\ ~is_numeric_dtype(frame.dtype[col])
              THEN <<[kind |-> "numbers", cols |-> <<col>>]>>
              ELSE <<>>

\* line 142: the loop over required_columns, in dict order
RECURSIVE TypeErrors(_, _)
TypeErrors(frame, i) ==
    IF i > Len(RequiredColumns) THEN <<>>
    ELSE ColumnErrors(frame, RequiredColumns[i]) \o TypeErrors(frame, i + 1)

validate_csv(frame) == MissingErrors(frame) \o TypeErrors(frame, 1)

(* ---------------------------- calculate_kpis --------------------------- *)
Failure(msg) == [error |-> msg]

\* mutant: rows with a null delivery date are dropped before the comparison
OnTimeFlagsDropNull(delivery, promised) ==
    LET keep == SelectSeq([i \in 1..Len(delivery) |-> i],
                          LAMBDA i : delivery[i].k # "NaT")
    IN [j \in 1..Len(keep) |-> LeDates(delivery[keep[j]], promised[keep[j]])]

\* mutant: strict comparison
OnTimeFlagsStrict(delivery, promised) ==
    [i \in 1..Len(delivery) |->
        delivery[i].k = "ts" /\ promised[i].k = "ts" /\ delivery[i].v < promised[i].v]

\* line 161: df['Delivery_Date'] <= df['Promised_Delivery_Date']
OnTimeFlags(delivery, promised) ==
    [i \in 1..Len(delivery) |-> LeDates(delivery[i], promised[i])]

\* mutant: the mean taken over the rows of the column, empty cells included
MeanInventoryAllRows(s) ==
    IF Len(s) = 0 THEN NaN ELSE Rat(SumValid(s, 1), Len(s))

\* line 163: df['Average_Inventory'].mean()
MeanInventory(s) == SeriesMean(s)

\* lines 157-159: the three date columns are parsed and assigned in turn; a
\* missing column (KeyError) or an unparseable value leaves the frame as
\* converted so far
RECURSIVE ParseDates(_, _)
ParseDates(frame, i) ==
    IF i > 3 THEN [raised |-> "None", df |-> frame]
    ELSE LET col == RequiredColumns[i] IN
         IF col \notin frame.columns THEN [raised |-> "KeyError", df |-> frame]
         ELSE IF ToDatetimeRaises(frame.data[col])
              THEN [raised |-> "ParserError", df |-> frame]
              ELSE ParseDates(SetColumn(frame, col, to_datetime(frame.data[col]),
                                        "datetime64[ns]"), i + 1)

\* lines 154-172: [ret |-> the returned dict, df |-> the caller's frame, which
\* the function assigns into]
calculate(frame) ==
    LET parsed == ParseDates(frame, 1) IN
    IF parsed.raised # "None" THEN [ret |-> Failure(parsed.raised), df |-> parsed.df]
    ELSE
    LET flags == OnTimeFlags(parsed.df.data["Delivery_Date"],
                             parsed.df.data["Promised_Delivery_Date"])
        out == SetColumn(parsed.df, "On_Time", flags, "bool")
        on_time_rate == MeanBool(flags)
    IN  IF "Sales" \notin out.columns \/ "Average_Inventory" \notin out.columns
        THEN [ret |-> Failure("KeyError"), df |-> out]
        ELSE IF HasText(out.data["Sales"]) \/ HasText(out.data["Average_Inventory"])
        THEN [ret |-> Failure("TypeError"), df |-> out]
        ELSE [ret |-> [on_time_rate |-> on_time_rate,
                       inventory_turnover |->
                           Divide(SeriesSum(out.data["Sales"]),
                                  MeanInventory(out.data["Average_Inventory"])),
                       error |-> "None",
                       df |-> out],
              df |-> out]

calculate_kpis(frame) == calculate(frame).ret

(* ---------------------------- inputs ----------------------------------- *)
Const(n, cell) == [i \in 1..n |-> cell]

\* every column present, the two compared date columns d and p vary
DateFile(n, d, p) ==
    [columns |-> RequiredSet, n |-> n,
     data |-> [c \in RequiredSet |->
                  CASE c = "Order_Date" -> Const(n, DateCell(1))
                    [] c = "Delivery_Date" -> d
                    [] c = "Promised_Delivery_Date" -> p
                    [] OTHER -> Const(n, NumCell(1))]]

\* every column present, the two numeric columns x and y vary
NumberFile(n, x, y) ==
    [columns |-> RequiredSet, n |-> n,
     data |-> [c \in RequiredSet |->
                  CASE c = "Sales" -> x
                    [] c = "Average_Inventory" -> y
                    [] OTHER -> Const(n, DateCell(1))]]

CellsOf(c) == IF required_columns[c] = "numeric" THEN NumCells ELSE DateCells

\* the uploaded file is one of: a file of up to MaxRows rows whose delivery and
\* promised dates vary, one whose sales and inventory vary, or a file with any
\* subset of the required columns and no row or one row of any cells
Upload ==
    \/ \E n \in 0..MaxRows : \E d \in [1..n -> DateCells], p \in [1..n -> DateCells] :
          uploaded_file = {DateFile(n, d, p)}
    \/ \E n \in 0..MaxRows : \E x \in [1..n -> NumCells], y \in [1..n -> NumCells] :
          uploaded_file = {NumberFile(n, x, y)}
    \/ \E S \in SUBSET RequiredSet : \E n \in 0..1 :
          \E f \in [S -> [1..n -> DateCells \cup NumCells]] :
             /\ \A c \in S : \A i \in 1..n : f[c][i] \in CellsOf(c)
             /\ uploaded_file = {[columns |-> S, n |-> n, data |-> f]}

(* ---------------------------- state ------------------------------------ *)
NoFrame == [columns |-> {}, n |-> 0, data |-> <<>>, dtype |-> <<>>]
NoKpis == [error |-> "unset"]

TheFile == CHOOSE f \in uploaded_file : TRUE
Input == read_csv(TheFile)

Called(fn) == \E i \in 1..Len(calls) : calls[i].fn = fn
Call(fn, raised) == [fn |-> fn, raised |-> raised]

TypeOK ==
    /\ pc \in {"fn", "upload", "branch", "tab1", "weekly", "tab2", "tab3", "save",
               "footer", "done", "aborted"}
    /\ Cardinality(uploaded_file) <= 1

(* ---------------------------- the functions, called directly ----------- *)
InitFn ==
    /\ Upload
    /\ df = NoFrame
    /\ validation_errors = <<>>
    /\ kpis = NoKpis
    /\ pc = "fn"
    /\ ui = <<>>
    /\ metrics = {}
    /\ db = <<>>
    /\ calls = <<>>

CallValidate ==
    /\ pc = "fn"
    /\ ~Called("validate_csv")
    /\ validation_errors' = validate_csv(Input)
    /\ calls' = Append(calls, Call("validate_csv", FALSE))
    /\ UNCHANGED <<uploaded_file, df, kpis, pc, ui, metrics, db>>

CallCalculate ==
    /\ pc = "fn"
    /\ ~Called("calculate_kpis")
    /\ kpis' = calculate_kpis(Input)
    /\ df' = calculate(Input).df
    /\ calls' = Append(calls, Call("calculate_kpis", FALSE))
    /\ UNCHANGED <<uploaded_file, validation_errors, pc, ui, metrics, db>>

NextFn == CallValidate \/ CallCalculate

SpecFn == InitFn /\ [][NextFn]_vars

(* ---------------------------- properties of the functions -------------- *)
Range(q) == {q[i] : i \in 1..Len(q)}

RECURSIVE SumCells(_, _)
SumCells(s, I) ==
    IF I = {} THEN 0
    ELSE LET i == CHOOSE j \in I : TRUE IN s[i].v + SumCells(s, I \ {i})

NumRows(s) == {i \in 1..Len(s) : s[i].k = "num"}
NullRows(s) == {i \in 1..Len(s) : s[i].k = "null"}

\* the value is the fraction n / d
RatEq(x, n, d) == x.k = "num" /\ x.d > 0 /\ d > 0 /\ x.n * d = n * x.d

HasInput == uploaded_file # {}
AllPresent == HasInput /\ TheFile.columns = RequiredSet
Column(c) == TheFile.data[c]

\* rows delivered on or before the promised date
OnTimeRows ==
    {i \in 1..TheFile.n :
        /\ Column("Delivery_Date")[i].k = "date"
        /\ Column("Promised_Delivery_Date")[i].k = "date"
        /\ Column("Delivery_Date")[i].v <= Column("Promised_Delivery_Date")[i].v}

Calculated == HasInput /\ Called("calculate_kpis")
Validated == HasInput /\ Called("validate_csv")
Succeeded == Calculated /\ kpis.error = "None"

\* C1: for a dataset with zero rows and all five required columns,
\* calculate_kpis returns a failure (a non-empty error), never a result with
\* error = None carrying an undefined (0/0) metric.
C1_ZeroRowsFail ==
    (Calculated /\ AllPresent /\ TheFile.n = 0) => kpis.error # "None"

\* C2: for a non-empty dataset whose average_inventory values are all zero,
\* calculate_kpis returns a failure, never a result with error = None carrying
\* a numeric, infinite or undefined inventory_turnover.
C2_ZeroInventoryFails ==
    (/\ Calculated /\ AllPresent /\ TheFile.n > 0
     /\ \A i \in 1..TheFile.n : Column("Average_Inventory")[i] = NumCell(0))
    => kpis.error # "None"

\* C3: for a dataset missing one or more required columns, validate_csv
\* returns exactly one missing-columns error, that error names every absent
\* required column, and it is the first element of the error list, whatever
\* type defects the present columns have.
C3_OneMissingColumnsError ==
    (Validated /\ TheFile.columns # RequiredSet) =>
        /\ Len(validation_errors) >= 1
        /\ validation_errors[1].kind = "missing"
        /\ Range(validation_errors[1].cols) = RequiredSet \ TheFile.columns
        /\ Cardinality({i \in 1..Len(validation_errors) :
                           validation_errors[i].kind = "missing"}) = 1

C3_Witness ==
    /\ Validated
    /\ Cardinality(RequiredSet \ TheFile.columns) >= 2
    /\ Len(validation_errors) >= 3
    /\ validation_errors[1].kind = "missing"

\* C4: for a dataset with all five required columns in which every value of
\* the three date columns is a calendar date and the two numeric columns hold
\* numbers, validate_csv returns an empty error list.
C4_WellTypedIsValid ==
    (/\ Validated /\ AllPresent
     /\ \A c \in RequiredSet : \A i \in 1..TheFile.n :
           Column(c)[i].k = (IF required_columns[c] = "numeric" THEN "num" ELSE "date"))
    => validation_errors = <<>>

\* C5: for a non-empty valid dataset with no null delivery_date, calculate_kpis
\* succeeds and on_time_rate = (rows with delivery_date <= promised_delivery_date)
\* / (rows), a value in [0,1]; one late row gives 0, one on-time row gives 1.
C5_OnTimeRate ==
    (/\ Calculated /\ AllPresent /\ TheFile.n > 0
     /\ validate_csv(Input) = <<>>
     /\ NullRows(Column("Delivery_Date")) = {})
    => /\ kpis.error = "None"
       /\ RatEq(kpis.on_time_rate, Cardinality(OnTimeRows), TheFile.n)
       /\ 0 <= kpis.on_time_rate.n /\ kpis.on_time_rate.n <= kpis.on_time_rate.d
       /\ (TheFile.n = 1 =>
             kpis.on_time_rate.n = (IF OnTimeRows = {} THEN 0 ELSE kpis.on_time_rate.d))

C5_Witness ==
    /\ Succeeded /\ TheFile.n >= 2
    /\ NullRows(Column("Delivery_Date")) = {}
    /\ \E i \in 1..TheFile.n :
          /\ Column("Delivery_Date")[i].k = "date"
          /\ Column("Promised_Delivery_Date")[i].k = "date"
          /\ Column("Delivery_Date")[i].v = Column("Promised_Delivery_Date")[i].v
    /\ \E i \in 1..TheFile.n :
          /\ Column("Promised_Delivery_Date")[i].k = "date"
          /\ Column("Delivery_Date")[i].v > Column("Promised_Delivery_Date")[i].v
    /\ RatEq(kpis.on_time_rate, 1, 2)

\* C6: a row whose delivery_date is null is flagged not on time and stays in
\* the denominator: on_time_rate = (rows with a non-null delivery_date <=
\* promised_delivery_date) / (all rows, the null-delivery rows included).
C6_NullDeliveryCounted ==
    (Succeeded /\ NullRows(Column("Delivery_Date")) # {}) =>
        /\ Len(kpis.df.data["On_Time"]) = TheFile.n
        /\ \A i \in NullRows(Column("Delivery_Date")) : ~kpis.df.data["On_Time"][i]
        /\ RatEq(kpis.on_time_rate, Cardinality(OnTimeRows), TheFile.n)

C6_Witness ==
    /\ Succeeded /\ TheFile.n = 2
    /\ Cardinality(NullRows(Column("Delivery_Date"))) = 1
    /\ Cardinality(OnTimeRows) = 1
    /\ RatEq(kpis.on_time_rate, 1, 2)

SumSales == SumCells(Column("Sales"), NumRows(Column("Sales")))
SumInventory ==
    SumCells(Column("Average_Inventory"), NumRows(Column("Average_Inventory")))

\* C7 as stated: for a non-empty dataset whose mean average_inventory is
\* nonzero, inventory_turnover = sum(sales) * row_count / sum(average_inventory).
C7_TurnoverOverAllRows ==
    (Succeeded /\ TheFile.n > 0 /\ SumInventory > 0) =>
        RatEq(kpis.inventory_turnover, SumSales * TheFile.n, SumInventory)

\* C7 (amended): for a non-empty dataset whose non-null average_inventory
\* values have a nonzero mean, inventory_turnover is one scalar equal to
\* sum(sales) / mean(non-null average_inventory values), that is sum(sales) *
\* count(non-null average_inventory) / sum(average_inventory); it equals
\* sum(sales) * row_count / sum(average_inventory) when no average_inventory
\* value is null.
C7_TurnoverSkipsNulls ==
    (Succeeded /\ TheFile.n > 0 /\ SumInventory > 0) =>
        /\ RatEq(kpis.inventory_turnover,
                 SumSales * Cardinality(NumRows(Column("Average_Inventory"))),
                 SumInventory)
        /\ (NullRows(Column("Average_Inventory")) = {} =>
               RatEq(kpis.inventory_turnover, SumSales * TheFile.n, SumInventory))

C7_Witness ==
    /\ Succeeded /\ TheFile.n = 2
    /\ NullRows(Column("Average_Inventory")) # {}
    /\ SumInventory > 0 /\ SumSales > 0
    /\ kpis.inventory_turnover.k = "num"

(* ---------------------------- the script: main processing -------------- *)
Init ==
    /\ (uploaded_file = {} \/ Upload)
    /\ df = NoFrame
    /\ validation_errors = <<>>
    /\ kpis = NoKpis
    /\ pc = "upload"
    /\ ui = <<>>
    /\ metrics = {}
    /\ db = <<>>
    /\ calls = <<>>

\* line 198: no file was uploaded, the script goes on to the footer
NoUpload ==
    /\ pc = "upload"
    /\ uploaded_file = {}
    /\ pc' = "footer"
    /\ UNCHANGED <<uploaded_file, df, validation_errors, kpis, ui, metrics, db, calls>>

\* lines 198-200
ReadAndValidate ==
    /\ pc = "upload"
    /\ uploaded_file # {}
    /\ df' = read_csv(TheFile)
    /\ validation_errors' = validate_csv(read_csv(TheFile))
    /\ calls' = Append(calls, Call("validate_csv", FALSE))
    /\ pc' = "branch"
    /\ UNCHANGED <<uploaded_file, kpis, ui, metrics, db>>

\* lines 202-205
ReportErrors ==
    /\ pc = "branch"
    /\ validation_errors # <<>>
    /\ ui' = Append(ui, "invalid_csv")
    /\ pc' = "footer"
    /\ UNCHANGED <<uploaded_file, df, validation_errors, kpis, metrics, db, calls>>

\* lines 207-216: the call and the branch on kpis["error"]
CalculateStep ==
    /\ kpis' = calculate_kpis(df)
    /\ df' = calculate(df).df
    /\ calls' = Append(calls, Call("calculate_kpis", FALSE))
    /\ IF calculate_kpis(df).error # "None"
       THEN ui' = Append(ui, "calculation_error") /\ pc' = "footer"
       ELSE ui' = Append(ui, "success") /\ pc' = "tab1"
    /\ UNCHANGED <<uploaded_file, validation_errors, metrics, db>>

\* mutant: the calculation runs whatever the validator returned
CalculateUnguarded ==
    /\ pc = "branch"
    /\ CalculateStep

\* lines 206-216: the else branch of `if validation_errors`
Calculate ==
    /\ pc = "branch"
    /\ validation_errors = <<>>
    /\ CalculateStep

\* lines 218-231: the two st.metric calls
DisplayMetrics ==
    /\ pc = "tab1"
    /\ metrics' = {<<kpis.on_time_rate, kpis.inventory_turnover>>}
    /\ ui' = Append(ui, "metrics")
    /\ pc' = "weekly"
    /\ UNCHANGED <<uploaded_file, df, validation_errors, kpis, db, calls>>

\* lines 233-248: px.line is called, but the module imports only
\* plotly.graph_objects as go (lines 1-8); the name px is undefined, the
\* NameError is caught nowhere and ends the script run
WeeklyTrend ==
    /\ pc = "weekly"
    /\ ui' = Append(ui, "weekly_header")
    /\ pc' = "aborted"
    /\ UNCHANGED <<uploaded_file, df, validation_errors, kpis, metrics, db, calls>>

\* lines 290-295
Footer ==
    /\ pc = "footer"
    /\ ui' = Append(ui, "footer")
    /\ pc' = "done"
    /\ UNCHANGED <<uploaded_file, df, validation_errors, kpis, metrics, db, calls>>

Next ==
    \/ NoUpload
    \/ ReadAndValidate
    \/ ReportErrors
    \/ Calculate
    \/ DisplayMetrics
    \/ WeeklyTrend
    \/ Footer

Spec == Init /\ [][Next]_vars

(* ---------------------------- the script from line 250 on -------------- *)
\* The statements after the weekly chart, started in the state the script has
\* at line 250 once lines 198-248 have completed for a valid file.
Displayable(f) ==
    /\ validate_csv(read_csv(f)) = <<>>
    /\ calculate_kpis(read_csv(f)).error = "None"

InitPersist ==
    /\ Upload
    /\ Displayable(TheFile)
    /\ df = calculate(Input).df
    /\ validation_errors = <<>>
    /\ kpis = calculate_kpis(Input)
    /\ pc = "tab2"
    /\ ui = <<"success", "metrics", "weekly_header", "weekly_chart">>
    /\ metrics = {<<calculate_kpis(Input).on_time_rate,
                    calculate_kpis(Input).inventory_turnover>>}
    /\ db = <<>>
    /\ calls = <<Call("validate_csv", FALSE), Call("calculate_kpis", FALSE)>>

\* lines 250-278
ShippingLanes ==
    /\ pc = "tab2"
    /\ df' = SetColumn(df, "Lane", [i \in 1..df.n |-> "Lane"], "object")
    /\ ui' = Append(ui, "lanes")
    /\ pc' = "tab3"
    /\ UNCHANGED <<uploaded_file, validation_errors, kpis, metrics, db, calls>>

\* lines 280-281
RawData ==
    /\ pc = "tab3"
    /\ ui' = Append(ui, "raw_data")
    /\ pc' = "save"
    /\ UNCHANGED <<uploaded_file, df, validation_errors, kpis, metrics, db, calls>>

\* lines 284-286 and 104-110: the insert succeeds
SaveKpisOk ==
    /\ pc = "save"
    /\ db' = Append(db, [on_time_rate |-> kpis.on_time_rate,
                         inventory_turnover |-> kpis.inventory_turnover])
    /\ calls' = Append(calls, Call("save_kpis", FALSE))
    /\ ui' = Append(ui, "toast_saved")
    /\ pc' = "footer"
    /\ UNCHANGED <<uploaded_file, df, validation_errors, kpis, metrics>>

\* mutant: the exception of save_kpis is not caught
SaveKpisFailsUncaught ==
    /\ pc = "save"
    /\ calls' = Append(calls, Call("save_kpis", TRUE))
    /\ pc' = "aborted"
    /\ UNCHANGED <<uploaded_file, df, validation_errors, kpis, ui, metrics, db>>

\* lines 284-288: save_kpis raises (connect, CREATE TABLE or insert), the
\* except clause turns the exception into st.warning
SaveKpisFails ==
    /\ pc = "save"
    /\ calls' = Append(calls, Call("save_kpis", TRUE))
    /\ ui' = Append(ui, "warning_save_failed")
    /\ pc' = "footer"
    /\ UNCHANGED <<uploaded_file, df, validation_errors, kpis, metrics, db>>

NextPersist ==
    \/ ShippingLanes
    \/ RawData
    \/ SaveKpisOk
    \/ SaveKpisFails
    \/ Footer

SpecPersist == InitPersist /\ [][NextPersist]_vars

(* ---------------------------- properties of the script ----------------- *)
CallIndex(fn) == {i \in 1..Len(calls) : calls[i].fn = fn}
SaveRaised == \E i \in 1..Len(calls) : calls[i].fn = "save_kpis" /\ calls[i].raised

\* C8: calculate_kpis is invoked only after validate_csv has returned an empty
\* error list for the file; if validate_csv returns errors, the run reports
\* them and neither calculate_kpis nor save_kpis is invoked in that run.
C8_ValidationGatesCalculation ==
    /\ Called("calculate_kpis") =>
          /\ validation_errors = <<>>
          /\ \E i \in CallIndex("validate_csv") :
                \A j \in CallIndex("calculate_kpis") : i < j
    /\ (Called("validate_csv") /\ validation_errors # <<>>) =>
          /\ ~Called("calculate_kpis")
          /\ ~Called("save_kpis")
          /\ kpis = NoKpis
          /\ db = <<>>
          /\ pc \in {"branch", "footer", "done"}
          /\ (pc # "branch" => "invalid_csv" \in Range(ui))

C8_Witness ==
    /\ pc = "done"
    /\ validation_errors # <<>>
    /\ "invalid_csv" \in Range(ui)
    /\ ~Called("calculate_kpis")

C10_SuccessReachesSave ==
    (Called("calculate_kpis") /\ kpis.error = "None" /\ pc \in {"done", "aborted"}) =>
        /\ pc = "done"
        /\ Cardinality(CallIndex("save_kpis")) = 1

====
